---- MODULE Spec2Model ----
(***************************************************************************)
(* RistrettoHash<H> (src/src/lib.rs): a multiset hash.  An instance holds  *)
(* a wide digest state `hash`, the flag `updating` and the running sum     *)
(* `acc`, a point of the Ristretto group.                                  *)
(*                                                                         *)
(* The Ristretto group is cyclic of prime order, so it is modelled as the  *)
(* integers modulo a prime GroupOrder (a point is its discrete logarithm); *)
(* u64 is modelled as MultBits-bit unsigned, with 2^MultBits < GroupOrder  *)
(* as 2^64 is below the order of Ristretto.  The digest state of H is the  *)
(* byte string fed so far; its 512-bit output is a number computed from    *)
(* those bytes, and from_hash reduces it to a point.  No byte string of    *)
(* the model is mapped to the identity, as is the case (up to a negligible *)
(* probability) for a uniform map into a group of order near 2^252.        *)
(*                                                                         *)
(* Spec explores the calls with every byte string of at most MaxLen bytes. *)
(* SpecHist also records the commits made (log) and, to keep the recorded  *)
(* histories few, draws the elements from Words.                           *)
(***************************************************************************)
EXTENDS Integers, Sequences, FiniteSets, TLC

VARIABLES hash, updating, acc,   \* the fields of RistrettoHash
          live,                  \* FALSE once finalize has consumed the instance
          out,                   \* outcome of the last call
          fed, nupd,             \* history: bytes / number of update calls since the last commit or reset
          base,                  \* history: the instance as it was when last not updating
          touched,               \* history: some add/update/end_update since creation or the last reset
          tracking, log          \* history: the commits since creation or the last reset (recorded when tracking)

vars == <<hash, updating, acc, live, out, fed, nupd, base, touched, tracking, log>>

----------------------------------------------------------------------------
\* Bounds of the model

MaxLen == 2        \* bytes fed into one element
MaxChunks == 2     \* update calls per element
MaxCommits == 2    \* commits recorded in log
MaxMult == 3       \* multiplicities passed to add and end_update

\* Scaled program constants
MultBits == 3      \* width of the multiplicity (u64)
GroupOrder == 13   \* order of the group (prime, above 2^MultBits)
OutputSize == 32   \* bytes of output (U32)

Byte == {0, 1}

\* Every value of the multiplicity's type
U64 == 0..(2^MultBits - 1)

\* The byte strings passed as data
Elements == UNION {[1..n -> Byte] : n \in 0..MaxLen}

\* The elements committed while the log is recorded
Words == {<<>>, <<0>>, <<1>>}

\* The multiplicities passed to add and end_update: the small ones and the
\* largest of the type
Mults == (0..MaxMult) \cup {2^MultBits - 1}

----------------------------------------------------------------------------
\* The digest H (Digest<OutputSize = U64> + Default + Reset + Update)

H_default == <<>>

H_update(h, data) == h \o data

H_reset(h) == <<>>

RECURSIVE H_finalize(_)
H_finalize(h) ==
    IF h = <<>> THEN 17
    ELSE (H_finalize(SubSeq(h, 1, Len(h) - 1)) * 10 + h[Len(h)] + 1) % 8191

----------------------------------------------------------------------------
\* The group: RistrettoPoint and Scalar of curve25519_dalek

Identity == 0

PointAdd(p, q) == (p + q) % GroupOrder

\* Variant: the multiplicity is narrowed to half its width before the conversion.
ScalarFrom_narrowed(multiplicity) == (multiplicity % 2^(MultBits - 1)) % GroupOrder

ScalarFrom(multiplicity) == multiplicity % GroupOrder

ScalarMul(s, p) == (s * p) % GroupOrder

from_hash(h) == H_finalize(h) % GroupOrder

RECURSIVE LEBytes(_, _)
LEBytes(n, k) == IF k = 0 THEN <<>> ELSE <<n % 256>> \o LEBytes(n \div 256, k - 1)

\* compress: the canonical encoding of each point, OutputSize bytes, distinct
\* for distinct points and all zero for the identity
CompressedPoints == [p \in 0..(GroupOrder - 1) |-> LEBytes(p + 255 * ((p * p) % 2), OutputSize)]

compress(p) == CompressedPoints[p]

----------------------------------------------------------------------------
\* RistrettoHash

None == <<>>

\* Variant: the derived default starts the sum at a point other than the identity.
Default_nonzero_acc == [hash |-> H_default, updating |-> FALSE, acc |-> 1]

Default == [hash |-> H_default, updating |-> FALSE, acc |-> Identity]

\* Variant: the scaled point is assigned to the sum (=) where the code adds it (+=).
end_update_assign(self, multiplicity) ==
    [hash |-> H_default,
     updating |-> FALSE,
     acc |-> ScalarMul(ScalarFrom(multiplicity), from_hash(self.hash))]

\* Variant: the digest state is finalized but not replaced by a fresh one.
end_update_keep_hash(self, multiplicity) ==
    [hash |-> self.hash,
     updating |-> FALSE,
     acc |-> PointAdd(self.acc, ScalarMul(ScalarFrom(multiplicity), from_hash(self.hash)))]

\* Variant: the point is added once, whatever the multiplicity.
end_update_unscaled(self, multiplicity) ==
    [hash |-> H_default,
     updating |-> FALSE,
     acc |-> PointAdd(self.acc, from_hash(self.hash))]

end_update(self, multiplicity) ==
    [hash |-> H_default,
     updating |-> FALSE,
     acc |-> PointAdd(self.acc, ScalarMul(ScalarFrom(multiplicity), from_hash(self.hash)))]

\* Variant: add without the check of the updating flag.
add_unguarded(self, data, multiplicity) ==
    [panic |-> FALSE,
     self |-> end_update([self EXCEPT !.hash = H_update(self.hash, data)], multiplicity)]

\* Variant: the check of the updating flag is inverted.
add_inverted_guard(self, data, multiplicity) ==
    IF ~self.updating
    THEN [panic |-> TRUE, self |-> self]
    ELSE [panic |-> FALSE,
          self |-> end_update([self EXCEPT !.hash = H_update(self.hash, data)], multiplicity)]

\* Variant: the bytes are fed to the digest state before the flag is checked.
add_feed_first(self, data, multiplicity) ==
    IF self.updating
    THEN [panic |-> TRUE, self |-> [self EXCEPT !.hash = H_update(self.hash, data)]]
    ELSE [panic |-> FALSE,
          self |-> end_update([self EXCEPT !.hash = H_update(self.hash, data)], multiplicity)]

add(self, data, multiplicity) ==
    IF self.updating
    THEN [panic |-> TRUE, self |-> self]
    ELSE [panic |-> FALSE,
          self |-> end_update([self EXCEPT !.hash = H_update(self.hash, data)], multiplicity)]

\* Variant: a chunk replaces the digest state instead of extending it.
update_replace(self, data) ==
    [self EXCEPT !.updating = TRUE, !.hash = H_update(H_default, data)]

\* Variant: an empty chunk does not set the updating flag.
update_nonempty(self, data) ==
    [self EXCEPT !.updating = self.updating \/ data # <<>>,
                 !.hash = H_update(self.hash, data)]

\* Variant: a chunk is also folded into the running sum.
update_into_acc(self, data) ==
    [self EXCEPT !.updating = TRUE, !.hash = H_update(self.hash, data),
                 !.acc = PointAdd(self.acc, from_hash(data))]

update(self, data) ==
    [self EXCEPT !.updating = TRUE, !.hash = H_update(self.hash, data)]

\* Variant: reset leaves the running sum as it is.
reset_keep_acc(self) ==
    [hash |-> H_reset(self.hash), updating |-> FALSE, acc |-> self.acc]

\* Variant: reset leaves the digest state as it is.
reset_keep_hash(self) ==
    [hash |-> self.hash, updating |-> FALSE, acc |-> Identity]

reset(self) ==
    [hash |-> H_reset(self.hash), updating |-> FALSE, acc |-> Identity]

\* Variant: the point of the digest state is compressed instead of the sum.
finalize_into_hash(self) ==
    IF self.updating
    THEN [panic |-> TRUE, out |-> None]
    ELSE [panic |-> FALSE, out |-> compress(from_hash(self.hash))]

\* Variant: finalize without the check of the updating flag.
finalize_into_unguarded(self) ==
    [panic |-> FALSE, out |-> compress(self.acc)]

finalize_into(self) ==
    IF self.updating
    THEN [panic |-> TRUE, out |-> None]
    ELSE [panic |-> FALSE, out |-> compress(self.acc)]

\* Variant: finalize_into_reset without the trailing reset.
finalize_into_reset_no_reset(self) ==
    IF self.updating
    THEN [panic |-> TRUE, out |-> None, self |-> self]
    ELSE [panic |-> FALSE, out |-> compress(self.acc), self |-> self]

finalize_into_reset(self) ==
    IF self.updating
    THEN [panic |-> TRUE, out |-> None, self |-> self]
    ELSE [panic |-> FALSE, out |-> compress(self.acc), self |-> reset(self)]

----------------------------------------------------------------------------
\* The instance and the calls on it

Self == [hash |-> hash, updating |-> updating, acc |-> acc]

\* What the last call did: its name, whether it panicked, the output it wrote,
\* and for a commit or a reset the number of element bytes, the multiplicity
\* and the number of update calls it closed.
Outcome(op, panic, value, n, m, k) ==
    [op |-> op, status |-> IF panic THEN "panic" ELSE "ok", value |-> value,
     n |-> n, m |-> m, k |-> k]

Store(s) ==
    /\ hash' = s.hash
    /\ updating' = s.updating
    /\ acc' = s.acc

InitState(t) ==
    /\ hash = Default.hash
    /\ updating = Default.updating
    /\ acc = Default.acc
    /\ live = TRUE
    /\ out = Outcome("default", FALSE, None, 0, 0, 0)
    /\ fed = <<>>
    /\ nupd = 0
    /\ base = Default
    /\ touched = FALSE
    /\ tracking = t
    /\ log = <<>>

Init == InitState(FALSE)

InitHist == InitState(TRUE)

Commit(data, multiplicity) == [data |-> data, m |-> multiplicity]

Record(data, multiplicity) ==
    IF tracking THEN Append(log, Commit(data, multiplicity)) ELSE log

CanCommit == tracking => Len(log) < MaxCommits

\* RistrettoHash::default()
DoDefault ==
    /\ ~live
    /\ Store(Default)
    /\ live' = TRUE
    /\ out' = Outcome("default", FALSE, None, 0, 0, 0)
    /\ fed' = <<>>
    /\ nupd' = 0
    /\ base' = Default
    /\ touched' = FALSE
    /\ log' = <<>>
    /\ UNCHANGED tracking

\* hash.add(data, multiplicity)
DoAdd(data, multiplicity) ==
    LET r == add(Self, data, multiplicity) IN
    /\ live
    /\ updating \/ CanCommit
    /\ Store(r.self)
    /\ out' = IF r.panic THEN Outcome("add", TRUE, None, 0, 0, 0)
                       ELSE Outcome("add", FALSE, None, Len(data), multiplicity, 0)
    /\ IF r.panic
       THEN UNCHANGED <<fed, nupd, base, touched, log>>
       ELSE /\ fed' = <<>>
            /\ nupd' = 0
            /\ base' = r.self
            /\ touched' = TRUE
            /\ log' = Record(data, multiplicity)
    /\ UNCHANGED <<live, tracking>>

\* hash.update(data)
DoUpdate(data) ==
    /\ live
    /\ nupd < MaxChunks
    /\ Len(fed) + Len(data) <= MaxLen
    /\ tracking => (fed \o data) \in Words
    /\ Store(update(Self, data))
    /\ out' = Outcome("update", FALSE, None, 0, 0, 0)
    /\ fed' = fed \o data
    /\ nupd' = nupd + 1
    /\ touched' = TRUE
    /\ UNCHANGED <<live, base, tracking, log>>

\* hash.end_update(multiplicity)
DoEndUpdate(multiplicity) ==
    /\ live
    /\ CanCommit
    /\ Store(end_update(Self, multiplicity))
    /\ out' = Outcome("end_update", FALSE, None, Len(fed), multiplicity, nupd)
    /\ fed' = <<>>
    /\ nupd' = 0
    /\ base' = end_update(Self, multiplicity)
    /\ touched' = TRUE
    /\ log' = Record(fed, multiplicity)
    /\ UNCHANGED <<live, tracking>>

\* hash.reset()
DoReset ==
    /\ live
    /\ Store(reset(Self))
    /\ out' = Outcome("reset", FALSE, None, Len(fed), 0, nupd)
    /\ fed' = <<>>
    /\ nupd' = 0
    /\ base' = reset(Self)
    /\ touched' = FALSE
    /\ log' = <<>>
    /\ UNCHANGED <<live, tracking>>

\* hash.finalize(): finalize_into(self, out), which consumes the instance
DoFinalize ==
    LET r == finalize_into(Self) IN
    /\ live
    /\ live' = FALSE
    /\ out' = Outcome("finalize_into", r.panic, r.out, 0, 0, 0)
    /\ UNCHANGED <<hash, updating, acc, fed, nupd, base, touched, tracking, log>>

\* hash.finalize_reset(): finalize_into_reset(&mut self, out)
DoFinalizeReset ==
    LET r == finalize_into_reset(Self) IN
    /\ live
    /\ Store(r.self)
    /\ out' = Outcome("finalize_into_reset", r.panic, r.out, 0, 0, 0)
    /\ IF r.panic
       THEN UNCHANGED <<fed, nupd, base, touched, log>>
       ELSE /\ fed' = <<>>
            /\ nupd' = 0
            /\ base' = r.self
            /\ touched' = FALSE
            /\ log' = <<>>
    /\ UNCHANGED <<live, tracking>>

\* The operations RistrettoHash offers: the derived Default and Clone, its own
\* add and end_update, and those of FixedOutput, Reset and Update
PublicOperations ==
    {"default", "clone", "add", "end_update", "finalize_into",
     "finalize_into_reset", "reset", "update"}

AddData == IF tracking THEN Words ELSE Elements

Next ==
    \/ DoDefault
    \/ \E data \in AddData, m \in Mults : DoAdd(data, m)
    \/ \E data \in Elements : DoUpdate(data)
    \/ \E m \in Mults : DoEndUpdate(m)
    \/ DoReset
    \/ DoFinalize
    \/ DoFinalizeReset

Spec == Init /\ [][Next]_vars

SpecHist == InitHist /\ [][Next]_vars

----------------------------------------------------------------------------
\* Helpers of the properties

Idle == live /\ ~updating

digest(s) == finalize_into(s).out

CompressedIdentity == [i \in 1..OutputSize |-> 0]

\* The commits of seq applied in order with add
RECURSIVE Replay(_, _)
Replay(s, seq) ==
    IF seq = <<>> THEN s
    ELSE Replay(add(s, Head(seq).data, Head(seq).m).self, Tail(seq))

Reorderings(seq) ==
    {[i \in 1..Len(seq) |-> seq[p[i]]] : p \in Permutations(1..Len(seq))}

\* n calls add(x, 1)
RECURSIVE add_times(_, _, _)
add_times(s, x, n) ==
    IF n = 0 THEN s ELSE add_times(add(s, x, 1).self, x, n - 1)

\* The multiset committed by a log: the total multiplicity of each element
RECURSIVE TotalMult(_, _)
TotalMult(seq, x) ==
    IF seq = <<>> THEN 0
    ELSE (IF Head(seq).data = x THEN Head(seq).m ELSE 0) + TotalMult(Tail(seq), x)

Committed(seq) == {seq[i].data : i \in 1..Len(seq)}

\* n * p in the group, n a natural number
Times(n, p) == (n * p) % GroupOrder

RECURSIVE GroupSum(_, _)
GroupSum(xs, seq) ==
    IF xs = {} THEN Identity
    ELSE LET x == CHOOSE y \in xs : TRUE IN
         (Times(TotalMult(seq, x), from_hash(x)) + GroupSum(xs \ {x}, seq)) % GroupOrder

MultisetSum(seq) == GroupSum(Committed(seq), seq)

----------------------------------------------------------------------------
\* C1 Order independence: the commits made on a fresh instance (by add, or by
\* update and end_update), applied to a fresh instance in any other order,
\* give the same finalize output.
C1_OrderIndependence ==
    Idle => \A p \in Reorderings(log) : digest(Replay(Default, p)) = digest(Self)

C1_Witness ==
    /\ Idle
    /\ Len(log) = 2
    /\ log[1].data # log[2].data
    /\ log[1].m = 1 /\ log[2].m = 2
    /\ out.op = "end_update" /\ out.k >= 1
    /\ acc # Identity

\* C2 Multiplicity folding: from an idle state, add(x, n) gives the running sum
\* and the output of n calls add(x, 1).
C2_MultiplicityFolding ==
    Idle =>
      \A x \in Elements, n \in U64 :
        LET one == add(Self, x, n)
            many == add_times(Self, x, n)
        IN /\ ~one.panic
           /\ one.self.acc = many.acc
           /\ digest(one.self) = digest(many)

C2_Witness ==
    /\ Idle
    /\ out.op = "add" /\ out.status = "ok"
    /\ out.m = 3 /\ out.n >= 1
    /\ acc # Identity

\* C3 Chunked equivalence: when an element has been fed in chunks from an idle
\* state, end_update(m) leaves the state, and gives the output, that
\* add(concatenation of the chunks, m) gives from that idle state.
C3_ChunkedEquivalence ==
    (live /\ updating) =>
      \A m \in U64 :
        LET chunked == end_update(Self, m)
            whole == add(base, fed, m)
        IN /\ ~whole.panic
           /\ chunked = whole.self
           /\ digest(chunked) = digest(whole.self)

C3_Witness ==
    /\ Idle
    /\ out.op = "end_update" /\ out.k = 2
    /\ out.n = 2
    /\ out.m >= 1
    /\ acc # Identity

\* C4 The running sum is the group sum, over the committed elements x, of
\* (total multiplicity of x) * P(x); and cat*2, dog*2 gives the output of
\* dog, cat, cat, dog.
C4_MultisetSum ==
    /\ acc = MultisetSum(log)
    /\ Idle =>
         \A cat \in Words, dog \in Words :
           digest(Replay(Self, <<Commit(cat, 2), Commit(dog, 2)>>))
             = digest(Replay(Self, <<Commit(dog, 1), Commit(cat, 1),
                                     Commit(cat, 1), Commit(dog, 1)>>))

C4_Witness ==
    /\ Len(log) = 2
    /\ log[1].data = log[2].data
    /\ log[1].m + log[2].m = 3
    /\ acc = Times(3, from_hash(log[1].data))
    /\ acc # Identity

\* C5 Guard on add: while updating, add panics for every input and changes
\* nothing; an add that panicked has committed nothing.
C5_AddGuard ==
    /\ (live /\ updating) =>
         \A data \in Elements, m \in U64 :
           add(Self, data, m).panic /\ add(Self, data, m).self = Self
    /\ (out.op = "add" /\ out.status = "panic") =>
         updating /\ hash = fed /\ nupd >= 1

C5_Witness ==
    /\ out.op = "add" /\ out.status = "panic"
    /\ updating /\ hash # <<>>

\* C6 Guard on finalization: while updating, finalize_into and
\* finalize_into_reset panic and write no output; no output is produced while
\* uncommitted bytes are outstanding.
C6_FinalizeGuard ==
    /\ updating =>
         /\ finalize_into(Self).panic /\ finalize_into(Self).out = None
         /\ finalize_into_reset(Self).panic /\ finalize_into_reset(Self).out = None
    /\ (out.op \in {"finalize_into", "finalize_into_reset"} /\ updating) =>
         out.status = "panic" /\ out.value = None

C6_Witness ==
    /\ ~live
    /\ out.op = "finalize_into" /\ out.status = "panic"
    /\ updating /\ hash # <<>>

\* C7 Zero multiplicity: from an idle state add(x, 0) succeeds and leaves the
\* running sum and the output as they were; end_update(0) leaves the running
\* sum as it was.
C7_ZeroMultiplicity ==
    /\ Idle =>
         \A x \in Elements :
           /\ ~add(Self, x, 0).panic
           /\ add(Self, x, 0).self.acc = acc
           /\ digest(add(Self, x, 0).self) = digest(Self)
    /\ live => end_update(Self, 0).acc = acc

C7_Witness ==
    /\ Idle
    /\ out.op = "add" /\ out.status = "ok"
    /\ out.m = 0 /\ out.n >= 1
    /\ acc # Identity

\* C8 Reset equivalence: in every state reset gives the state of a fresh
\* instance, and the instance right after a reset is in that state.
C8_ResetEquivalence ==
    /\ live => reset(Self) = Default
    /\ out.op = "reset" =>
         /\ out.status = "ok"
         /\ Self = Default
         /\ \A x \in Elements, m \in U64 :
              digest(add(Self, x, m).self) = digest(add(Default, x, m).self)

C8_Witness ==
    /\ out.op = "reset"
    /\ out.k >= 1 /\ out.n >= 1
    /\ Self = Default

\* C9 finalize_into_reset in an idle state writes the output of finalize_into
\* and leaves the state of a fresh instance, whose output is the compressed
\* identity.
C9_FinalizeReset ==
    /\ Idle =>
         LET r == finalize_into_reset(Self) IN
         /\ ~r.panic
         /\ r.out = finalize_into(Self).out
         /\ r.self = Default
         /\ digest(r.self) = compress(Identity)
    /\ (out.op = "finalize_into_reset" /\ out.status = "ok") => Self = Default

C9_Witness ==
    /\ out.op = "finalize_into_reset" /\ out.status = "ok"
    /\ out.value # compress(Identity)
    /\ Self = Default

\* C10 finalize of an instance not touched since its creation or its last
\* reset writes the compressed identity: OutputSize zero bytes.
C10_FreshDigest ==
    /\ (live /\ out.op \in {"default", "reset"}) => digest(Self) = CompressedIdentity
    /\ (out.op = "finalize_into" /\ ~touched) =>
         out.status = "ok" /\ out.value = CompressedIdentity

C10_Witness ==
    /\ ~live
    /\ out.op = "finalize_into" /\ out.status = "ok"
    /\ ~touched
    /\ out.value = CompressedIdentity
    /\ Len(out.value) = OutputSize

\* C11 end_update(m) in an idle state, with no update since the last commit or
\* reset, commits the digest of the empty byte string with multiplicity m, as
\* add(empty, m) does, and leaves the instance idle.
C11_EndUpdateIdle ==
    Idle =>
      \A m \in U64 :
        LET r == end_update(Self, m) IN
        /\ r = add(Self, <<>>, m).self
        /\ r.acc = PointAdd(acc, Times(m, from_hash(H_update(H_default, <<>>))))
        /\ ~r.updating /\ r.hash = H_default

C11_Witness ==
    /\ Idle
    /\ out.op = "end_update" /\ out.k = 0 /\ out.n = 0
    /\ out.m = 2
    /\ acc # Identity

\* C12 Output determinism: the output finalize writes is the encoding of the
\* running sum and of nothing else, so instances with equal sums, whatever
\* their histories, write the same OutputSize bytes.
C12_OutputDeterminism ==
    (out.op = "finalize_into" /\ out.status = "ok") =>
      /\ out.value = CompressedPoints[acc]
      /\ Len(out.value) = OutputSize
      /\ \A h \in Elements :
            digest([hash |-> h, updating |-> FALSE, acc |-> acc]) = out.value

C12_Witness ==
    /\ ~live
    /\ out.op = "finalize_into" /\ out.status = "ok"
    /\ acc # Identity /\ touched
    /\ out.value = CompressedPoints[acc]

\* The entries of seq at the positions in S, from position i on
RECURSIVE Part(_, _, _)
Part(seq, S, i) ==
    IF i > Len(seq) THEN <<>>
    ELSE (IF i \in S THEN <<seq[i]>> ELSE <<>>) \o Part(seq, S, i + 1)

\* C13 as stated: an instance that holds a running sum can be combined with
\* another one by an explicit merge operation.
C13_MergeOperation ==
    Idle => \E op \in PublicOperations : op = "merge"

\* C13 amended: every call is one of the operations above, none of which
\* merges two instances; yet the sums are additive: for every split of the
\* commits into two parts accumulated by two fresh instances, the group sum of
\* the two running sums is the running sum of the one instance that
\* accumulated them all, and compresses to its output.
C13_SumsAreAdditive ==
    /\ out.op \in PublicOperations /\ out.op # "merge"
    /\ \A S \in SUBSET (1..Len(log)) :
         LET left == Replay(Default, Part(log, S, 1))
             right == Replay(Default, Part(log, (1..Len(log)) \ S, 1))
             merged == PointAdd(left.acc, right.acc)
         IN /\ merged = acc
            /\ Idle => compress(merged) = digest(Self)

C13_Witness ==
    /\ Idle
    /\ out.op = "add" /\ out.status = "ok"
    /\ Len(log) = 2
    /\ log[1].data # log[2].data
    /\ log[1].m = 2 /\ log[2].m = 3
    /\ acc # Replay(Default, <<log[1]>>).acc
    /\ acc # Replay(Default, <<log[2]>>).acc

\* C14 The updating flag is true exactly when at least one update call, an
\* empty chunk included, was made since the last commit, reset, successful
\* finalize_into_reset or creation: an update leaves it set, a commit, a reset
\* and a successful finalize_into_reset leave it clear.
C14_PendingFlag ==
    /\ updating <=> (nupd >= 1)
    /\ out.op = "update" => updating
    /\ (out.op \in {"default", "end_update", "reset"}
          \/ (out.op \in {"add", "finalize_into_reset"} /\ out.status = "ok"))
         => ~updating
    /\ live => \A data \in Elements : update(Self, data).updating

C14_Witness ==
    /\ live /\ updating
    /\ out.op = "update"
    /\ nupd = 1 /\ fed = <<>>
    /\ hash = H_default

\* C15 The running sum changes only in a commit (add, end_update) or a reset
\* (reset, successful finalize_into_reset, a new instance): update,
\* finalize_into and every call that panics leave it as it was.
C15_SumFrame ==
    [][
        /\ acc' # acc =>
             /\ out'.status = "ok"
             /\ out'.op \in {"add", "end_update", "reset", "finalize_into_reset", "default"}
        /\ (out'.op \in {"update", "finalize_into"} \/ out'.status = "panic") => acc' = acc
        /\ live => \A data \in Elements : update(Self, data).acc = acc
    ]_vars

C15_Witness ==
    /\ live /\ updating
    /\ out.op = "update"
    /\ fed # <<>>
    /\ acc # Identity /\ acc = base.acc

\* C16 A call panics only if it is add, finalize_into or finalize_into_reset
\* made while the updating flag is set; in an idle state none of them panics,
\* and update, end_update and reset never do.
C16_OnlyProtocolViolation ==
    /\ out.status = "panic" =>
         /\ updating
         /\ out.op \in {"add", "finalize_into", "finalize_into_reset"}
    /\ Idle =>
         /\ \A data \in Elements, m \in U64 : ~add(Self, data, m).panic
         /\ ~finalize_into(Self).panic
         /\ ~finalize_into_reset(Self).panic

C16_Witness ==
    /\ live /\ updating
    /\ out.op = "finalize_into_reset" /\ out.status = "panic"
    /\ out.value = None
    /\ acc # Identity

\* C17 Element isolation: the digest state holds exactly the bytes of the
\* element in progress and is fresh whenever the flag is false, so that the
\* contribution of a commit is the multiplicity times the point of that
\* element's bytes alone.
C17_ElementIsolation ==
    /\ hash = fed
    /\ ~updating => hash = H_default
    /\ Idle =>
         \A x \in Elements, m \in Mults :
           add(Self, x, m).self.acc = PointAdd(acc, Times(m, from_hash(H_update(H_default, x))))
    /\ (live /\ updating) =>
         \A m \in Mults :
           end_update(Self, m).acc = PointAdd(acc, Times(m, from_hash(fed)))

C17_Witness ==
    /\ Idle
    /\ out.op = "add" /\ out.status = "ok"
    /\ out.n = 2 /\ out.m = 1
    /\ hash = H_default
    /\ acc # Identity
    /\ touched

\* C18 An add rejected because an update was in progress leaves the digest
\* state, the flag and the running sum as they were: the element in progress
\* can still be committed, with the result it would have had without the
\* rejected call.
C18_RejectedAdd ==
    (out.op = "add" /\ out.status = "panic") =>
      /\ updating
      /\ hash = H_update(base.hash, fed)
      /\ acc = base.acc
      /\ \A k \in U64 : end_update(Self, k) = add(base, fed, k).self

C18_Witness ==
    /\ live
    /\ out.op = "add" /\ out.status = "panic"
    /\ nupd = 2 /\ Len(fed) = 2
    /\ acc # Identity

\* C19 Multiplicities are converted without truncation: from an idle state two
\* different multiplicities of an element give different sums, and the
\* multiplicities of an element total as natural numbers reduced by the group
\* order, not by the width of the multiplicity.
C19_NoAliasing ==
    Idle =>
      \A x \in Words, m1 \in U64, m2 \in U64 :
        LET P == from_hash(x)
            one == add(Self, x, m1).self
            two == add(one, x, m2).self
        IN /\ m1 # m2 => one.acc # add(Self, x, m2).self.acc
           /\ two.acc = PointAdd(acc, Times(m1 + m2, P))
           /\ m1 + m2 >= 2^MultBits =>
                two.acc # PointAdd(acc, Times((m1 + m2) % 2^MultBits, P))

C19_Witness ==
    /\ Idle
    /\ out.op = "add" /\ out.status = "ok"
    /\ out.m = 2^MultBits - 1
    /\ acc = Times(2^MultBits - 1, from_hash(<<1>>))
    /\ acc # Identity

====
